---- MODULE Spec2Model ----
(***************************************************************************)
(* A model of the commP calculator of go-fil-commp-hashhash (type Calc):   *)
(* the carry buffer and slab logic of Write, the flush of Digest, Reset,   *)
(* Sum, the Fr32 expander of digestQuads, and the per-layer worker         *)
(* goroutines of addLayer connected by bounded channels.                   *)
(*                                                                         *)
(* Payload bytes are real bytes (0..255) and the Fr32 expander is computed *)
(* bit-exactly.  SHA-256 is an external primitive: a digest is kept as the *)
(* pair of its two 32-byte inputs (collision-free) together with the two   *)
(* most significant bits of its byte 31, the only bits the code touches.   *)
(*                                                                         *)
(* The tree height, the buffer size, the queue depth and the number of     *)
(* calls are scaled down (see the bounds); every size of the code is       *)
(* derived from them by the code's own formulas.                           *)
(***************************************************************************)
EXTENDS Integers, Sequences, FiniteSets, TLC

-----------------------------------------------------------------------------
(* Bounds of the model *)

\* const MaxLayers = uint(31): height of the proving tree, scaled down
MaxLayers == 4
\* bufferSize = 256 * quadPayload: the buffer holds 2^BufLog quads (8 in the code)
BufLog == 1
\* var layerQueueDepth = 32: capacity of every layer channel, scaled down
layerQueueDepth == 1
\* number of public calls (Write, Digest, Reset, Sum) one behaviour makes
MaxCalls == 3

-----------------------------------------------------------------------------
(* Program constants *)

quadPayload == 127
MinPiecePayload == 65
commpDigestSize == 32

\* 1 << n, for the shifts the code makes (n up to 30 here)
Pow2Table ==
  <<1, 2, 4, 8, 16, 32, 64, 128, 256, 512, 1024, 2048, 4096, 8192, 16384,
    32768, 65536, 131072, 262144, 524288, 1048576, 2097152, 4194304, 8388608,
    16777216, 33554432, 67108864, 134217728, 268435456, 536870912, 1073741824>>
Pow2(n) == Pow2Table[n + 1]

MaxPieceSize == Pow2(MaxLayers + 5)
MaxPiecePayload == (MaxPieceSize \div 128) * 127
bufferSize == Pow2(BufLog) * quadPayload

-----------------------------------------------------------------------------
(* Bytes and bit operations on them *)

Bit(x, k) == (x \div Pow2(k)) % 2

\* Go's  a | b  on two bytes
Or(a, b) ==
  LET o(k) == IF Bit(a, k) = 1 \/ Bit(b, k) = 1 THEN Pow2(k) ELSE 0
  IN  o(0) + o(1) + o(2) + o(3) + o(4) + o(5) + o(6) + o(7)

\* Go's  a & b  on two bytes
And(a, b) ==
  LET o(k) == IF Bit(a, k) = 1 /\ Bit(b, k) = 1 THEN Pow2(k) ELSE 0
  IN  o(0) + o(1) + o(2) + o(3) + o(4) + o(5) + o(6) + o(7)

\* Go's  a << k  on a byte (the result is truncated to 8 bits)
Shl(a, k) == (a * Pow2(k)) % 256

\* variant of Shr that shifts by one bit more
Shr_OneMore(a, k) == a \div Pow2(k + 1)

\* Go's  a >> k  on a byte
Shr(a, k) == a \div Pow2(k)

\* s[from:to] of a Go slice (0-based, to exclusive) as a sequence
Slice(s, from, to) == [i \in 1..(to - from) |-> s[from + i]]

Zeroes(n) == [i \in 1..n |-> 0]

-----------------------------------------------------------------------------
(* Nodes: the 32-byte cells the layers exchange *)

\* a cell holding 32 raw bytes (a leaf made by the expander, or make([]byte, 32))
Leaf(bytes) == [k |-> "leaf", b |-> bytes]

\* h.Reset(); h.Write(left); h.Write(right); h.Sum(...): the digest of 64 bytes.
\* hi stands for the two top bits of byte 31 of the digest as SHA-256 leaves them.
Sha256(left, right) == [k |-> "hash", l |-> left, r |-> right, hi |-> 3]

\* variant of ClearTop that leaves the digest as the hash gave it
ClearTop_Keep(node) == node

\* node[31] &= 0x3F
ClearTop(node) ==
  IF node.k = "leaf"
  THEN [node EXCEPT !.b[32] = And(node.b[32], 63)]
  ELSE [node EXCEPT !.hi = 0]

\* the two top bits of byte 31 of a node
TopBits(node) == IF node.k = "leaf" THEN node.b[32] \div 64 ELSE node.hi

-----------------------------------------------------------------------------
(* The Fr32 expander of digestQuads *)

\* One 127-byte quad to 128 bytes: the body of the loop over j of digestQuads.
\* in(j) and the index o are the code's 0-based indexes.
ExpandQuad(input) ==
  LET in(j) == input[j + 1]
      out(o) ==
        CASE o <= 30  -> in(o)
          [] o = 31   -> And(in(31), 63)
          [] o <= 62  -> Or(Shl(in(o), 2), Shr(in(o - 1), 6))
          [] o = 63   -> And(Or(Shl(in(63), 2), Shr(in(62), 6)), 63)
          [] o <= 94  -> Or(Shl(in(o), 4), Shr(in(o - 1), 4))
          [] o = 95   -> And(Or(Shl(in(95), 4), Shr(in(94), 4)), 63)
          [] o <= 126 -> Or(Shl(in(o), 6), Shr(in(o - 1), 2))
          [] OTHER    -> Shr(in(126), 2)
  IN  [i \in 1..128 |-> out(i - 1)]

\* outSlab of digestQuads as 32-byte cells: four cells for every quad of inSlab
ExpandSlab(inSlab) ==
  LET quadsCount == Len(inSlab) \div 127
      quad(j) == ExpandQuad(Slice(inSlab, j * 127, (j + 1) * 127))
  IN  [c \in 1..(4 * quadsCount) |->
         Leaf(Slice(quad((c - 1) \div 4), ((c - 1) % 4) * 32, ((c - 1) % 4) * 32 + 32))]

-----------------------------------------------------------------------------
(* The nul padding stack and the slab hasher *)

\* variant of stackedNulPadding without the masking of the entries
RECURSIVE stackedNulPadding_Unmasked(_)
stackedNulPadding_Unmasked(i) ==
  IF i = 0 THEN Leaf(Zeroes(commpDigestSize))
  ELSE Sha256(stackedNulPadding_Unmasked(i - 1), stackedNulPadding_Unmasked(i - 1))

\* init(): stackedNulPadding[0] = make([]byte, 32), then each entry is the
\* masked digest of the one below it written twice
RECURSIVE stackedNulPadding(_)
stackedNulPadding(i) ==
  IF i = 0 THEN Leaf(Zeroes(commpDigestSize))
  ELSE ClearTop(Sha256(stackedNulPadding(i - 1), stackedNulPadding(i - 1)))

\* The loop of hashSlab254 from byte offset 32*i on; stride counts cells.
RECURSIVE HashLoop(_, _, _)
HashLoop(slab, i, stride) ==
  IF Len(slab) > i + stride
  THEN HashLoop([slab EXCEPT ![i + 1] = ClearTop(Sha256(slab[i + 1], slab[i + stride + 1]))],
                i + 2 * stride, stride)
  ELSE slab

\* hashSlab254(h, layerIdx, slab): stride := 1 << (5 + layerIdx) bytes
hashSlab254(layerIdx, slab) == HashLoop(slab, 0, Pow2(layerIdx))

\* bits.OnesCount64
RECURSIVE OnesCount64(_)
OnesCount64(x) == IF x = 0 THEN 0 ELSE (x % 2) + OnesCount64(x \div 2)

\* 64 - bits.LeadingZeros64(x): the length of x in bits
RECURSIVE BitLen(_)
BitLen(x) == IF x = 0 THEN 0 ELSE 1 + BitLen(x \div 2)

\* variant of PaddedPieceSize that leaves out the rounding up to a power of two
PaddedPieceSize_NoRounding(quads) == quads * 128

\* variant of PaddedPieceSize that shifts without the test for a power of two
PaddedPieceSize_AlwaysShift(quads) == Pow2(BitLen(quads * 128))

\* Digest: paddedPieceSize from the number of quads enqueued
PaddedPieceSize(quads) ==
  LET raw == quads * 128
  IN  IF OnesCount64(raw) # 1 THEN Pow2(BitLen(raw)) ELSE raw

-----------------------------------------------------------------------------
(* The commitment as the specification defines it *)

CeilDiv(a, b) == (a + b - 1) \div b

RECURSIVE NextPow2From(_, _)
NextPow2From(p, x) == IF p >= x THEN p ELSE NextPow2From(2 * p, x)
\* the smallest power of two that is >= x
NextPow2(x) == NextPow2From(1, x)

\* the padded piece size of a payload of n bytes
RefPaddedSize(n) == NextPow2(CeilDiv(n, 127) * 128)

\* byte m (0-based) of a byte sequence, 0 past its end
ByteAt(bytes, m) == IF m < Len(bytes) THEN bytes[m + 1] ELSE 0

\* the 8 bits that start at bit o (0-based, least significant bit of byte 0
\* first) of the bitstream of a byte sequence, as a byte
StreamByte(bytes, o) ==
  ((ByteAt(bytes, o \div 8) + 256 * ByteAt(bytes, (o \div 8) + 1))
     \div Pow2(o % 8)) % 256

\* leaf c (0..3) of the Fr32 expansion of one quad: the input bitstream with
\* two zero bits inserted after every 254 input bits, so that leaf c is the
\* 254 bits from bit 254 * c on, followed by two zero bits
RefLeaf(quad, c) ==
  Leaf([i \in 1..32 |->
          LET byte == StreamByte(quad, 254 * c + 8 * (i - 1))
          IN  IF i = 32 THEN byte % 64 ELSE byte])

\* the Fr32 leaves of a payload zero-extended to `size` padded bytes
RefLeaves(payload, size) ==
  LET full == payload \o Zeroes((size \div 128) * 127 - Len(payload))
  IN  [c \in 1..(size \div 32) |->
         RefLeaf(Slice(full, ((c - 1) \div 4) * 127, ((c - 1) \div 4) * 127 + 127),
                 (c - 1) % 4)]

\* the root of the complete binary tree over a power-of-two number of leaves
RECURSIVE MerkleRoot(_)
MerkleRoot(leaves) ==
  IF Len(leaves) = 1 THEN leaves[1]
  ELSE LET half == Len(leaves) \div 2
       IN  ClearTop(Sha256(MerkleRoot(SubSeq(leaves, 1, half)),
                           MerkleRoot(SubSeq(leaves, half + 1, Len(leaves)))))

RefCommP(payload) == MerkleRoot(RefLeaves(payload, RefPaddedSize(Len(payload))))

-----------------------------------------------------------------------------
(* State *)

Threads == {1, 2}
Layers == 0..MaxLayers
QueueIdx == 0..(MaxLayers + 1)

VARIABLES
  mu,             \* Calc.mu: 0 when unlocked, else the thread holding it
  quadsEnqueued,  \* state.quadsEnqueued
  layerQueues,    \* state.layerQueues: [MaxLayers + 2]chan []byte
  resultCommP,    \* state.resultCommP: chan []byte of capacity 1
  buffer,         \* state.buffer: [nil |-> it is the nil slice, b |-> its bytes]
  workers,        \* the goroutine addLayer(k) started, for every layer k
  th,             \* every caller thread: where it is inside a public method
  panicked,       \* "" or the runtime panic that ended the process
  calls,          \* number of public calls made so far
  payload,        \* history: the bytes the Writes of this session accepted
  leavesIn,       \* history: the cells sent on layerQueues[0] in this session
  last,           \* history: the call that returned last and what it returned
  sessions,       \* history: number of times the state was reset
  failLen,        \* history: bytes accepted when a Digest of this session
                  \* last failed, -1 when none has
  pattern,        \* the byte pattern the callers write
  active,         \* the caller threads that exist
  sizes,          \* the lengths the callers pass to Write
  sums,           \* the callers digest with Digest (FALSE) or Sum (TRUE)
  budget,         \* number of public calls the callers make
  tower,          \* the package variable stackedNulPadding, after init()
  expander,       \* one quad put through the expander: input and output
  padLog,         \* history: the calls of PadCommP that returned before pad
  pad             \* a call of PadCommP: its arguments, locals and result

vars == <<mu, quadsEnqueued, layerQueues, resultCommP, buffer, workers, th,
          panicked, calls, payload, leavesIn, last, sessions, failLen, pattern,
          active, sizes, sums, budget, tower, expander, padLog, pad>>

\* what no method of Calc assigns: the callers' scenario, fixed by the initial
\* state, the nul padding table and the memory of a PadCommP call
env == <<pattern, active, sizes, sums, budget, tower, expander, padLog, pad>>

calcState == <<quadsEnqueued, layerQueues, resultCommP, buffer>>

\* a channel value; nil is the zero value of a chan field
NilChan == [nil |-> TRUE, closed |-> FALSE, q |-> <<>>]
MakeChan == [nil |-> FALSE, closed |-> FALSE, q |-> <<>>]

NilBuffer == [nil |-> TRUE, b |-> <<>>]

\* state{}: the zero value of the struct
ZeroQueues == [i \in QueueIdx |-> NilChan]

NoWorker == [pc |-> "none", twinHold |-> <<>>, out |-> <<>>]
Idle == [st |-> "idle", in |-> <<>>, total |-> 0, sum |-> FALSE]
NoCall == [op |-> "none", t |-> 0, ok |-> TRUE, n |-> 0, commP |-> <<>>,
           size |-> 0, payload |-> <<>>, failLen |-> -1, rejLen |-> -1,
           out |-> <<>>, raised |-> FALSE]

Patterns == {"zero", "ramp"}

\* byte p (1-based) of what thread t writes: all zero, or a ramp that differs
\* between the threads and sets the top bits of byte 31 of the first quad
PatternByte(t, p) ==
  IF pattern = "zero" THEN 0 ELSE (7 * p + 100 * (t - 1)) % 256

\* the n bytes a Write of thread t passes, continuing the session's stream
Input(t, n) == [i \in 1..n |-> PatternByte(t, Len(payload) + i)]

WriteSizes == {1, MinPiecePayload - 1, quadPayload, bufferSize + 1,
               MaxPiecePayload}

\* fewer lengths, for the scenarios with more calls or more threads
FewSizes == {1, MinPiecePayload - 1, bufferSize + 1}

\* a byte slice that holds a node: its length, and its 32 bytes when it has 32
NodeSlice(n, node) == [len |-> n, node |-> node]
NilSlice == NodeSlice(0, Leaf(<<>>))

\* no call of PadCommP made yet
PadIdle ==
  [pc |-> "idle", sourceCommP |-> NilSlice, source |-> 0, target |-> 0,
   given |-> NilSlice, out |-> NilSlice, s |-> 0, t |-> 0, res |-> NilSlice,
   err |-> "", shared |-> FALSE]

\* var stackedNulPadding [MaxLayers][]byte as init() leaves it
NulTable == [i \in 0..(MaxLayers - 1) |-> stackedNulPadding(i)]

InitWith(threads, lengths, ncalls, patterns, sumset) ==
  /\ tower = NulTable
  /\ expander = [input |-> <<>>, output |-> <<>>]
  /\ padLog = <<>>
  /\ pad = PadIdle
  /\ mu = 0
  /\ quadsEnqueued = 0
  /\ layerQueues = ZeroQueues
  /\ resultCommP = NilChan
  /\ buffer = NilBuffer
  /\ workers = [k \in Layers |-> NoWorker]
  /\ th = [t \in Threads |-> Idle]
  /\ panicked = ""
  /\ calls = 0
  /\ payload = <<>>
  /\ leavesIn = <<>>
  /\ last = NoCall
  /\ sessions = 0
  /\ failLen = -1
  /\ pattern \in patterns
  /\ active = threads
  /\ sizes = lengths
  /\ sums = sumset
  /\ budget = ncalls

Init == InitWith({1}, WriteSizes, MaxCalls, {"ramp"}, {FALSE})

-----------------------------------------------------------------------------
(* Channels, addLayer, digestQuads *)

\* a send on ch does not block: ch is not nil and has room (or is closed, and
\* the send panics)
CanSend(ch) == ~ch.nil /\ (ch.closed \/ Len(ch.q) < layerQueueDepth)

\* a receive from ch does not block
CanRecv(ch) == ~ch.nil /\ (ch.closed \/ Len(ch.q) > 0)

\* close(ch) panics on a nil and on a closed channel
ClosePanics(ch) == ch.nil \/ ch.closed

\* addLayer(myIdx): the guard against a second call for the same index
AddLayerPanics(myIdx, queues) == ~queues[myIdx + 1].nil

\* addLayer(myIdx): the next layer's channel
AddLayerQueues(myIdx, queues) == [queues EXCEPT ![myIdx + 1] = MakeChan]

\* addLayer(myIdx): the goroutine it starts, with s256 and a nil twinHold
AddLayerWorkers(myIdx, ws) ==
  [ws EXCEPT ![myIdx] = [pc |-> "recv", twinHold |-> <<>>, out |-> <<>>]]

\* cp.state = state{}; the session's history ends with the session
ResetState ==
  /\ quadsEnqueued' = 0
  /\ layerQueues' = ZeroQueues
  /\ resultCommP' = NilChan
  /\ buffer' = NilBuffer
  /\ payload' = <<>>
  /\ leavesIn' = <<>>
  /\ sessions' = sessions + 1
  /\ failLen' = -1

\* variant of QuadsCount that counts one quad for a slab
QuadsCount_One(inSlab) == 1

\* digestQuads: quadsCount := len(inSlab) / 127
QuadsCount(inSlab) == Len(inSlab) \div 127

\* digestQuads(inSlab): counts the quads, expands them, sends the slab to
\* layer 0.  Leaves buffer, resultCommP and the workers to the caller.
digestQuads(inSlab) ==
  /\ CanSend(layerQueues[0])
  /\ IF layerQueues[0].closed
     THEN /\ panicked' = "send on closed channel"
          /\ UNCHANGED <<quadsEnqueued, layerQueues, leavesIn>>
     ELSE LET outSlab == ExpandSlab(inSlab)
          IN  /\ quadsEnqueued' = quadsEnqueued + QuadsCount(inSlab)
              /\ layerQueues' = [layerQueues EXCEPT ![0].q = Append(@, outSlab)]
              /\ leavesIn' = leavesIn \o outSlab
              /\ UNCHANGED panicked

-----------------------------------------------------------------------------
(* Write *)

CanCall(t) ==
  /\ pad.pc = "idle"
  /\ t \in active
  /\ th[t].st = "idle"
  /\ panicked = ""
  /\ calls < budget

\* history: the bytes accepted when a Write of the current session was last
\* rejected for overflow, -1 when none was
RejLen(op, ok) ==
  IF op = "Write" /\ ~ok THEN Len(payload)
  ELSE IF last.op = "Reset" \/ (last.op \in {"Digest", "Sum"} /\ last.ok)
  THEN -1
  ELSE last.rejLen

\* the buf the callers pass to Sum: a slice is a sequence of chunks, here one
\* chunk of two bytes
SumPrefix == <<[k |-> "bytes", b |-> <<222, 173>>]>>

\* variant of AppendCommP that returns the commitment without buf
AppendCommP_NoPrefix(buf, commP) == commP

\* Sum: append(buf, commP...)
AppendCommP(buf, commP) == buf \o commP

\* what a call returned: commP, size and ok from Write, Reset or Digest (for
\* Sum, from the Digest it calls); out is what Sum returned, raised tells
\* that Sum ended in panic(err)
Returned(op, t, ok, n, commP, size, pl) ==
  [op |-> op, t |-> t, ok |-> ok, n |-> n, commP |-> commP, size |-> size,
   payload |-> pl, failLen |-> failLen, rejLen |-> RejLen(op, ok),
   out |-> IF op = "Sum" /\ ok THEN AppendCommP(SumPrefix, commP) ELSE <<>>,
   raised |-> (op = "Sum" /\ ~ok)]

\* variant of OverflowReturn in which the rejected Write buffers a byte
OverflowReturn_Prefix ==
  /\ buffer' = [buffer EXCEPT !.b = Append(@, 0)]
  /\ UNCHANGED <<layerQueues, resultCommP, workers, payload>>

\* Write: return 0, xerrors.Errorf(...) before anything is assigned
OverflowReturn ==
  UNCHANGED <<layerQueues, resultCommP, buffer, workers, payload>>

\* variant of WriteLock in which Write does not wait for the mutex
WriteLock_NoWait(t) == TRUE

\* cp.mu.Lock() of Write
WriteLock(t) == mu = 0

\* Write: the overflow test
WriteOverflows(n) == MaxPiecePayload < quadsEnqueued * quadPayload + n

\* variant of EmptyReturn in which the empty Write allocates the buffer
EmptyReturn_Allocates ==
  /\ buffer' = [nil |-> FALSE, b |-> buffer.b]
  /\ UNCHANGED <<mu, quadsEnqueued, layerQueues, resultCommP, workers>>

\* Write: return 0, nil for an empty input, before anything is touched
EmptyReturn ==
  UNCHANGED <<mu, quadsEnqueued, layerQueues, resultCommP, buffer, workers>>

\* Write: if len(input) == 0 { return 0, nil }, before the mutex is taken
WriteEmpty(t) ==
  /\ UNCHANGED <<sessions, failLen>>
  /\ CanCall(t)
  /\ calls' = calls + 1
  /\ last' = Returned("Write", t, TRUE, 0, <<>>, 0, <<>>)
  /\ EmptyReturn
  /\ UNCHANGED <<th, panicked, payload, leavesIn, env>>

\* variant of ShortWrite that also buffers a total of exactly bufferSize
ShortWrite_Inclusive(buf, n) == Len(buf) + n <= bufferSize

\* Write: "short Write() - just buffer it", len(cp.buffer)+len(input) < bufferSize
ShortWrite(buf, n) == Len(buf) + n < bufferSize

\* Write of n > 0 bytes, from cp.mu.Lock() to the short-Write return or to
\* the point where the first slab is due
WriteCall(t, n) ==
  /\ UNCHANGED <<sessions, failLen>>
  /\ CanCall(t)
  /\ WriteLock(t)
  /\ calls' = calls + 1
  /\ UNCHANGED <<quadsEnqueued, leavesIn, env>>
  /\ IF WriteOverflows(n)
     THEN /\ last' = Returned("Write", t, FALSE, 0, <<>>, 0, <<>>)
          /\ OverflowReturn
          /\ UNCHANGED <<mu, th, panicked>>
     ELSE LET starting == buffer.nil
              input == Input(t, n)
              buf == IF starting THEN <<>> ELSE buffer.b
          IN  IF starting /\ AddLayerPanics(0, [layerQueues EXCEPT ![0] = MakeChan])
              THEN /\ panicked' = "addLayer called more than once with identical idx argument"
                   /\ UNCHANGED <<mu, layerQueues, resultCommP, buffer, workers,
                                  th, payload, last>>
              ELSE /\ UNCHANGED panicked
                   /\ payload' = payload \o input
                   /\ IF starting
                      THEN /\ resultCommP' = MakeChan
                           /\ layerQueues' =
                                AddLayerQueues(0, [layerQueues EXCEPT ![0] = MakeChan])
                           /\ workers' = AddLayerWorkers(0, workers)
                      ELSE UNCHANGED <<resultCommP, layerQueues, workers>>
                   /\ IF ShortWrite(buf, n)
                      THEN /\ buffer' = [nil |-> FALSE, b |-> buf \o input]
                           /\ last' = Returned("Write", t, TRUE, n, <<>>, 0, <<>>)
                           /\ UNCHANGED <<mu, th>>
                      ELSE /\ buffer' = [nil |-> FALSE, b |-> buf]
                           /\ mu' = t
                           /\ th' = [th EXCEPT ![t] =
                                [st |-> "WriteSplice", in |-> input, total |-> n,
                                 sum |-> FALSE]]
                           /\ UNCHANGED last

\* variant of AfterSplice that keeps the spliced bytes in the input
AfterSplice_Keep(input, toSplice) == input

\* Write: cp.buffer = append(cp.buffer, input[:toSplice]...), the slab that
\* the splice passes to digestQuads
SpliceSlab(buf, input, toSplice) == buf \o Slice(input, 0, toSplice)

\* variant of LoopSlab that takes one quad of the input
LoopSlab_OneQuad(input) == Slice(input, 0, quadPayload)

\* Write: input[:bufferSize], the slab that the loop passes to digestQuads
LoopSlab(input) == Slice(input, 0, bufferSize)

\* Digest: cp.buffer[:127], the slab that the flush passes to digestQuads
FlushSlab(buf) == Slice(buf, 0, 127)

\* Write: input = input[toSplice:]
AfterSplice(input, toSplice) == Slice(input, toSplice, Len(input))

\* Write: if toSplice := bufferSize - len(cp.buffer); toSplice < bufferSize {...}
WriteSplice(t) ==
  /\ UNCHANGED <<sessions, failLen>>
  /\ th[t].st = "WriteSplice"
  /\ panicked = ""
  /\ LET toSplice == bufferSize - Len(buffer.b)
     IN  IF toSplice < bufferSize
         THEN /\ digestQuads(SpliceSlab(buffer.b, th[t].in, toSplice))
              /\ buffer' = [buffer EXCEPT !.b = <<>>]
              /\ th' = [th EXCEPT ![t].st = "WriteLoop",
                                  ![t].in = AfterSplice(th[t].in, toSplice)]
         ELSE /\ th' = [th EXCEPT ![t].st = "WriteLoop"]
              /\ UNCHANGED <<quadsEnqueued, layerQueues, leavesIn, panicked, buffer>>
  /\ UNCHANGED <<mu, resultCommP, workers, calls, payload, last, env>>

\* Write: for len(input) >= bufferSize { digestQuads(input[:bufferSize]) ... },
\* then the rest goes to the buffer and Write returns
WriteLoop(t) ==
  /\ UNCHANGED <<sessions, failLen>>
  /\ th[t].st = "WriteLoop"
  /\ panicked = ""
  /\ IF Len(th[t].in) >= bufferSize
     THEN /\ digestQuads(LoopSlab(th[t].in))
          /\ th' = [th EXCEPT ![t].in = Slice(th[t].in, bufferSize, Len(th[t].in))]
          /\ UNCHANGED <<mu, buffer, last>>
     ELSE /\ buffer' = [buffer EXCEPT !.b = @ \o th[t].in]
          /\ mu' = 0
          /\ th' = [th EXCEPT ![t] = Idle]
          /\ last' = Returned("Write", t, TRUE, th[t].total, <<>>, 0, <<>>)
          /\ UNCHANGED <<quadsEnqueued, layerQueues, leavesIn, panicked>>
  /\ UNCHANGED <<resultCommP, workers, calls, payload, env>>

-----------------------------------------------------------------------------
(* Digest, Sum, Reset *)

\* cp.mu.Lock() of Digest and of Reset
CallLock(t) == mu = 0

\* Digest: processed := cp.quadsEnqueued*uint64(quadPayload) + uint64(len(cp.buffer))
Processed == quadsEnqueued * quadPayload + Len(buffer.b)

\* variant of Insufficient that also rejects exactly MinPiecePayload bytes
Insufficient_Inclusive == Processed <= MinPiecePayload

\* Digest: processed < MinPiecePayload
Insufficient == Processed < MinPiecePayload

\* variant of DeferredReset that resets after a failure too
DeferredReset_Always(ok) == ResetState

\* variant of DeferredReset that never resets
DeferredReset_Never(ok) ==
  /\ failLen' = (IF ok THEN failLen ELSE Len(payload))
  /\ UNCHANGED <<quadsEnqueued, layerQueues, resultCommP, buffer, payload,
                 leavesIn, sessions>>

\* Digest: the deferred function, "reset only if we did succeed"
DeferredReset(ok) ==
  IF ok THEN ResetState
  ELSE /\ failLen' = Len(payload)
       /\ UNCHANGED <<quadsEnqueued, layerQueues, resultCommP, buffer, payload,
                      leavesIn, sessions>>

\* Digest: the buffer padded up with zeroes to a whole number of quads
PadBuffer(b) ==
  IF Len(b) > 0 /\ Len(b) % quadPayload # 0
  THEN b \o Zeroes(quadPayload - (Len(b) % quadPayload))
  ELSE b

\* Digest (sum = FALSE) or Sum (sum = TRUE), from cp.mu.Lock() to the error
\* return or to the flush of the buffer.  Sum panics on the error.
DigestCall(t, sum) ==
  /\ CanCall(t)
  /\ CallLock(t)
  /\ calls' = calls + 1
  /\ IF Insufficient
     THEN /\ DeferredReset(FALSE)
          /\ last' = Returned(IF sum THEN "Sum" ELSE "Digest", t, FALSE, 0, <<>>, 0,
                              payload)
          /\ UNCHANGED <<mu, th>>
     ELSE /\ buffer' = [buffer EXCEPT !.b = PadBuffer(@)]
          /\ mu' = t
          /\ th' = [th EXCEPT ![t] =
               [st |-> "DigestFlush", in |-> <<>>, total |-> 0, sum |-> sum]]
          /\ UNCHANGED <<quadsEnqueued, layerQueues, resultCommP, payload,
                         leavesIn, last, sessions, failLen>>
  /\ UNCHANGED <<workers, panicked, env>>

\* Digest: for len(cp.buffer) > 0 { cp.digestQuads(cp.buffer[:127]) ... }
DigestFlush(t) ==
  /\ UNCHANGED <<sessions, failLen>>
  /\ th[t].st = "DigestFlush"
  /\ panicked = ""
  /\ Len(buffer.b) > 0
  /\ digestQuads(FlushSlab(buffer.b))
  /\ buffer' = [buffer EXCEPT !.b = Slice(@, 127, Len(@))]
  /\ UNCHANGED <<mu, resultCommP, workers, th, calls, payload, last, env>>

\* Digest: close(cp.layerQueues[0]), then paddedPieceSize
DigestClose(t) ==
  /\ UNCHANGED <<sessions, failLen>>
  /\ th[t].st = "DigestFlush"
  /\ panicked = ""
  /\ Len(buffer.b) = 0
  /\ IF ClosePanics(layerQueues[0])
     THEN /\ panicked' = "close of nil or closed channel"
          /\ UNCHANGED <<layerQueues, th>>
     ELSE /\ layerQueues' = [layerQueues EXCEPT ![0].closed = TRUE]
          /\ th' = [th EXCEPT ![t].st = "DigestWait",
                              ![t].total = PaddedPieceSize(quadsEnqueued)]
          /\ UNCHANGED panicked
  /\ UNCHANGED <<mu, quadsEnqueued, resultCommP, buffer, workers, calls,
                 payload, leavesIn, last, env>>

\* Digest: return <-cp.resultCommP, paddedPieceSize, nil; then the deferred
\* reset and unlock.  Sum returns append(buf, commP...).
DigestReturn(t) ==
  /\ th[t].st = "DigestWait"
  /\ panicked = ""
  /\ CanRecv(resultCommP)
  /\ last' = Returned(IF th[t].sum THEN "Sum" ELSE "Digest", t, TRUE, 0,
                      <<Head(resultCommP.q)>>, th[t].total, payload)
  /\ DeferredReset(TRUE)
  /\ mu' = 0
  /\ th' = [th EXCEPT ![t] = Idle]
  /\ UNCHANGED <<workers, panicked, calls, env>>

\* variant of ResetCloses that closes layer 0 whatever the state
ResetCloses_Always == TRUE

\* Reset: if cp.buffer != nil -- "we are resetting without digesting"
ResetCloses == ~buffer.nil

\* Reset, from cp.mu.Lock() to the close of layer 0, or to the end when the
\* buffer is nil
ResetCall(t) ==
  /\ CanCall(t)
  /\ CallLock(t)
  /\ calls' = calls + 1
  /\ IF ResetCloses
     THEN IF ClosePanics(layerQueues[0])
          THEN /\ panicked' = "close of nil or closed channel"
               /\ UNCHANGED <<mu, quadsEnqueued, layerQueues, resultCommP, buffer,
                              payload, leavesIn, th, last, sessions, failLen>>
          ELSE /\ layerQueues' = [layerQueues EXCEPT ![0].closed = TRUE]
               /\ mu' = t
               /\ th' = [th EXCEPT ![t].st = "ResetWait"]
               /\ UNCHANGED <<quadsEnqueued, resultCommP, buffer, payload,
                              leavesIn, panicked, last, sessions, failLen>>
     ELSE /\ ResetState
          /\ last' = Returned("Reset", t, TRUE, 0, <<>>, 0, <<>>)
          /\ UNCHANGED <<mu, th, panicked>>
  /\ UNCHANGED <<workers, env>>

\* variant of ResetDrained in which Reset does not wait for the result
ResetDrained_NoWait == TRUE

\* Reset: <-cp.resultCommP does not block
ResetDrained == CanRecv(resultCommP)

\* Reset: <-cp.resultCommP; cp.state = state{}; cp.mu.Unlock()
ResetReturn(t) ==
  /\ th[t].st = "ResetWait"
  /\ panicked = ""
  /\ ResetDrained
  /\ last' = Returned("Reset", t, TRUE, 0, <<>>, 0, payload)
  /\ ResetState
  /\ mu' = 0
  /\ th' = [th EXCEPT ![t] = Idle]
  /\ UNCHANGED <<workers, panicked, calls, env>>

-----------------------------------------------------------------------------
(* The layer workers: the goroutine of addLayer(myIdx) *)

\* case uint64(len(slab)) > uint64(1<<(5+myIdx)); a slab is counted in cells
IsMultiSlab(myIdx, slab) == Len(slab) > Pow2(myIdx)

\* variant of IsLast that looks one queue too far up
IsLast_TooEarly(myIdx) ==
  myIdx >= MaxLayers - 1 \/ layerQueues[myIdx + 3].nil

\* "I am last": myIdx == MaxLayers || cp.layerQueues[myIdx+2] == nil
IsLast(myIdx) == myIdx = MaxLayers \/ layerQueues[myIdx + 2].nil

\* variant of ClosePadding that takes the padding of the layer above
ClosePadding_LayerAbove(myIdx) == stackedNulPadding(myIdx + 1)

\* the padding a held node is paired with when the queue closes:
\* copy(twinHold[32:64], stackedNulPadding[myIdx])
ClosePadding(myIdx) == tower[myIdx]

\* variant of TwinPair that puts the new node before the held one
TwinPair_Swapped(hold, slab) == <<slab[1], hold[1]>>

\* copy(twinHold[32:64], slab[0:32]): the 64 bytes twinHold[0:64], the held
\* node followed by the new one
TwinPair(hold, slab) == <<hold[1], slab[1]>>

\* variant of AfterHold in which the goroutine returns once it holds a node
AfterHold_Return == "done"

\* default: twinHold = slab[0:32:64]; continue -- back to the receive
AfterHold == "recv"

\* slab, queueIsOpen := <-cp.layerQueues[myIdx] with the queue open, and the
\* switch that follows, up to the send (or the continue)
WorkerRecv(k) ==
  /\ UNCHANGED <<sessions, failLen>>
  /\ workers[k].pc = "recv"
  /\ panicked = ""
  /\ ~layerQueues[k].nil
  /\ Len(layerQueues[k].q) > 0
  /\ LET slab == Head(layerQueues[k].q)
         hold == workers[k].twinHold
     IN  workers' = [workers EXCEPT ![k] =
           IF IsMultiSlab(k, slab)
           THEN [pc |-> "send", twinHold |-> hold, out |-> hashSlab254(k, slab)]
           ELSE IF hold # <<>>
           THEN [pc |-> "send", twinHold |-> <<>>,
                 out |-> SubSeq(hashSlab254(0, TwinPair(hold, slab)), 1, 1)]
           ELSE [pc |-> AfterHold, twinHold |-> <<slab[1]>>, out |-> <<>>]]
  /\ layerQueues' = [layerQueues EXCEPT ![k].q = Tail(@)]
  /\ UNCHANGED <<mu, quadsEnqueued, resultCommP, buffer, th, panicked, calls,
                 payload, leavesIn, last, env>>

\* variant of NeedsWorker that asks for a worker after every push
NeedsWorker_Always(queues, myIdx) == TRUE

\* if cp.layerQueues[myIdx+2] == nil: nobody is there to take what was pushed
NeedsWorker(queues, myIdx) == queues[myIdx + 2].nil

\* cp.layerQueues[myIdx+1] <- ..., then "Check whether we need another worker
\* for what we just pushed"
WorkerSend(k) ==
  /\ UNCHANGED <<sessions, failLen>>
  /\ workers[k].pc = "send"
  /\ panicked = ""
  /\ CanSend(layerQueues[k + 1])
  /\ IF layerQueues[k + 1].closed
     THEN /\ panicked' = "send on closed channel"
          /\ UNCHANGED <<layerQueues, workers>>
     ELSE LET pushed == [layerQueues EXCEPT ![k + 1].q = Append(@, workers[k].out)]
              looping == [workers EXCEPT ![k].pc = "recv", ![k].out = <<>>]
          IN  IF k + 2 > MaxLayers + 1
              THEN /\ panicked' = "index out of range"
                   /\ UNCHANGED <<layerQueues, workers>>
              ELSE IF ~NeedsWorker(pushed, k)
              THEN /\ layerQueues' = pushed
                   /\ workers' = looping
                   /\ UNCHANGED panicked
              ELSE IF AddLayerPanics(k + 1, pushed)
              THEN /\ panicked' = "addLayer called more than once with identical idx argument"
                   /\ UNCHANGED <<layerQueues, workers>>
              ELSE /\ layerQueues' = AddLayerQueues(k + 1, pushed)
                   /\ workers' = AddLayerWorkers(k + 1, looping)
                   /\ UNCHANGED panicked
  /\ UNCHANGED <<mu, quadsEnqueued, resultCommP, buffer, th, calls, payload,
                 leavesIn, last, env>>

\* variant of QueueClosed that does not wait for the queue to drain
QueueClosed_Undrained(myIdx) == layerQueues[myIdx].closed

\* slab, queueIsOpen := <-cp.layerQueues[myIdx] yields !queueIsOpen: the
\* queue is closed and every slab sent before the close was received
QueueClosed(myIdx) ==
  layerQueues[myIdx].closed /\ Len(layerQueues[myIdx].q) = 0

\* "the dream is collapsing": the receive finds the queue closed and drained
WorkerClose(k) ==
  /\ UNCHANGED <<sessions, failLen>>
  /\ workers[k].pc = "recv"
  /\ panicked = ""
  /\ ~layerQueues[k].nil
  /\ QueueClosed(k)
  /\ LET hold == workers[k].twinHold
         done == [pc |-> "done", twinHold |-> <<>>, out |-> <<>>]
     IN  IF IsLast(k)
         THEN IF hold = <<>>
              THEN /\ panicked' = "slice bounds out of range [:32] with capacity 0"
                   /\ UNCHANGED <<layerQueues, resultCommP, workers>>
              ELSE /\ ~resultCommP.nil
                   /\ Len(resultCommP.q) < 1
                   /\ resultCommP' = [resultCommP EXCEPT !.q = Append(@, hold[1])]
                   /\ workers' = [workers EXCEPT ![k] = done]
                   /\ UNCHANGED <<layerQueues, panicked>>
         ELSE IF hold # <<>> /\ k \notin DOMAIN tower
         THEN /\ panicked' = "index out of range"
              /\ UNCHANGED <<layerQueues, resultCommP, workers>>
         ELSE IF hold # <<>>
         THEN /\ workers' = [workers EXCEPT ![k] =
                   [pc |-> "sendclose", twinHold |-> hold,
                    out |-> hashSlab254(0, <<hold[1], ClosePadding(k)>>)]]
              /\ UNCHANGED <<layerQueues, resultCommP, panicked>>
         ELSE IF ClosePanics(layerQueues[k + 1])
         THEN /\ panicked' = "close of nil or closed channel"
              /\ UNCHANGED <<layerQueues, resultCommP, workers>>
         ELSE /\ layerQueues' = [layerQueues EXCEPT ![k + 1].closed = TRUE]
              /\ workers' = [workers EXCEPT ![k] = done]
              /\ UNCHANGED <<resultCommP, panicked>>
  /\ UNCHANGED <<mu, quadsEnqueued, buffer, th, calls, payload, leavesIn, last,
                 env>>

\* variant of SentAndClosed that closes the queue without the send
SentAndClosed_CloseOnly(ch, slab) == [ch EXCEPT !.closed = TRUE]

\* the next layer's queue after the send of the padded parent and the close
SentAndClosed(ch, slab) == [ch EXCEPT !.q = Append(@, slab), !.closed = TRUE]

\* cp.layerQueues[myIdx+1] <- twinHold[0:64:64]; close(cp.layerQueues[myIdx+1])
WorkerSendClose(k) ==
  /\ UNCHANGED <<sessions, failLen>>
  /\ workers[k].pc = "sendclose"
  /\ panicked = ""
  /\ CanSend(layerQueues[k + 1])
  /\ IF layerQueues[k + 1].closed
     THEN /\ panicked' = "send on closed channel"
          /\ UNCHANGED <<layerQueues, workers>>
     ELSE /\ layerQueues' =
               [layerQueues EXCEPT ![k + 1] = SentAndClosed(@, workers[k].out)]
          /\ workers' = [workers EXCEPT ![k] =
               [pc |-> "done", twinHold |-> <<>>, out |-> <<>>]]
          /\ UNCHANGED panicked
  /\ UNCHANGED <<mu, quadsEnqueued, resultCommP, buffer, th, calls, payload,
                 leavesIn, last, env>>

-----------------------------------------------------------------------------
(* PadCommP *)

\* what PadCommP, a function without receiver, has no access to
calcAll == <<mu, quadsEnqueued, layerQueues, resultCommP, buffer, workers, th,
             payload, leavesIn, last, sessions, failLen>>

\* bits.TrailingZeros64(x) for x > 0
RECURSIVE TrailingZeros64(_)
TrailingZeros64(x) == IF x % 2 = 1 THEN 0 ELSE 1 + TrailingZeros64(x \div 2)

\* variant of PadError without the test against MaxPieceSize
PadError_NoMaximum(sourceCommP, sourcePaddedSize, targetPaddedSize) ==
  IF sourceCommP.len # 32 THEN "provided commP must be exactly 32 bytes long"
  ELSE IF OnesCount64(sourcePaddedSize) # 1
  THEN "source padded size is not a power of 2"
  ELSE IF OnesCount64(targetPaddedSize) # 1
  THEN "target padded size is not a power of 2"
  ELSE IF sourcePaddedSize > targetPaddedSize
  THEN "source padded size larger than target padded size"
  ELSE IF sourcePaddedSize < 128
  THEN "source padded size smaller than the minimum of 128 bytes"
  ELSE ""

\* variant of PadError that takes a size without a set bit for a power of two
PadError_ZeroIsPower(sourceCommP, sourcePaddedSize, targetPaddedSize) ==
  IF sourceCommP.len # 32 THEN "provided commP must be exactly 32 bytes long"
  ELSE IF OnesCount64(sourcePaddedSize) > 1
  THEN "source padded size is not a power of 2"
  ELSE IF OnesCount64(targetPaddedSize) > 1
  THEN "target padded size is not a power of 2"
  ELSE IF sourcePaddedSize > targetPaddedSize
  THEN "source padded size larger than target padded size"
  ELSE IF sourcePaddedSize < 128
  THEN "source padded size smaller than the minimum of 128 bytes"
  ELSE IF targetPaddedSize > MaxPieceSize
  THEN "target padded size larger than Filecoin maximum"
  ELSE ""

\* PadCommP: the checks of the arguments, in the order of the code; "" when
\* all of them pass
PadError(sourceCommP, sourcePaddedSize, targetPaddedSize) ==
  IF sourceCommP.len # 32 THEN "provided commP must be exactly 32 bytes long"
  ELSE IF OnesCount64(sourcePaddedSize) # 1
  THEN "source padded size is not a power of 2"
  ELSE IF OnesCount64(targetPaddedSize) # 1
  THEN "target padded size is not a power of 2"
  ELSE IF sourcePaddedSize > targetPaddedSize
  THEN "source padded size larger than target padded size"
  ELSE IF sourcePaddedSize < 128
  THEN "source padded size smaller than the minimum of 128 bytes"
  ELSE IF targetPaddedSize > MaxPieceSize
  THEN "target padded size larger than Filecoin maximum"
  ELSE ""

\* variant of OutShares in which out is the caller's slice
OutShares_NoCopy == TRUE

\* PadCommP: out := make([]byte, 32); copy(out, sourceCommP) gives out an
\* array of its own
OutShares == FALSE

\* variant of PadIndex without the offset of the padding tower
PadIndex_NoOffset(s) == s - 4

\* PadCommP: stackedNulPadding[s-5]
PadIndex(s) == s - 5

\* variant of PadFold that hashes the padding before the commitment
PadFold_Swapped(out, padding) == ClearTop(Sha256(padding, out))

\* PadCommP: h.Write(out); h.Write(padding); out = h.Sum(out[:0]);
\* out[31] &= 0x3F
PadFold(out, padding) == ClearTop(Sha256(out, padding))

\* variant of PadStart that skips the first level
PadStart_Next(sourcePaddedSize) == TrailingZeros64(sourcePaddedSize) + 1

\* PadCommP: s := bits.TrailingZeros64(sourcePaddedSize)
PadStart(sourcePaddedSize) == TrailingZeros64(sourcePaddedSize)

\* PadCommP: the condition of  for ; s < t; s++
PadMore(s, t) == s < t

\* PadCommP from its call to the error return, the noop return or the loop:
\* the arguments, locals and results of the call
PadEnter(sourceCommP, sourcePaddedSize, targetPaddedSize) ==
  LET err == PadError(sourceCommP, sourcePaddedSize, targetPaddedSize)
      called == [PadIdle EXCEPT !.sourceCommP = sourceCommP,
                                !.given = sourceCommP,
                                !.source = sourcePaddedSize,
                                !.target = targetPaddedSize]
  IN  IF err # ""
      THEN [called EXCEPT !.pc = "done", !.err = err]
      ELSE IF sourcePaddedSize = targetPaddedSize
      THEN [called EXCEPT !.pc = "done", !.res = sourceCommP, !.shared = TRUE]
      ELSE [called EXCEPT !.pc = "loop",
                          !.out = NodeSlice(32, sourceCommP.node),
                          !.shared = OutShares,
                          !.s = PadStart(sourcePaddedSize),
                          !.t = TrailingZeros64(targetPaddedSize)]

\* a caller calls PadCommP
PadCall(t, sourceCommP, sourcePaddedSize, targetPaddedSize) ==
  /\ CanCall(t)
  /\ calls' = calls + 1
  /\ pad' = PadEnter(sourceCommP, sourcePaddedSize, targetPaddedSize)
  /\ UNCHANGED <<calcAll, panicked, pattern, active, sizes, sums, budget, tower,
                 expander, padLog>>

\* PadCommP: one turn of  for ; s < t; s++ { ... }
PadLoop ==
  /\ pad.pc = "loop"
  /\ panicked = ""
  /\ PadMore(pad.s, pad.t)
  /\ IF PadIndex(pad.s) \notin DOMAIN tower
     THEN /\ panicked' = "index out of range"
          /\ UNCHANGED pad
     ELSE LET sum == NodeSlice(32, PadFold(pad.out.node, tower[PadIndex(pad.s)]))
          IN  /\ pad' = [pad EXCEPT !.out = sum,
                                    !.s = @ + 1,
                                    !.sourceCommP = IF pad.shared THEN sum ELSE @]
              /\ UNCHANGED panicked
  /\ UNCHANGED <<calcAll, calls, pattern, active, sizes, sums, budget, tower,
                 expander, padLog>>

\* PadCommP: return out, nil
PadReturn ==
  /\ pad.pc = "loop"
  /\ panicked = ""
  /\ ~PadMore(pad.s, pad.t)
  /\ pad' = [pad EXCEPT !.pc = "done", !.res = pad.out]
  /\ UNCHANGED <<calcAll, panicked, calls, pattern, active, sizes, sums, budget,
                 tower, expander, padLog>>

\* the caller passes what PadCommP returned, with the size it was padded to,
\* to a second call of PadCommP
PadChain(targetPaddedSize) ==
  /\ pad.pc = "done" /\ pad.err = ""
  /\ panicked = ""
  /\ padLog = <<>>
  /\ padLog' = <<pad>>
  /\ pad' = PadEnter(pad.res, pad.target, targetPaddedSize)
  /\ UNCHANGED <<calcAll, panicked, calls, pattern, active, sizes, sums, budget,
                 tower, expander>>

\* the caller calls PadCommP a third time, with the commitment and source
\* size of the first call and the target size of the second
PadDirect ==
  /\ pad.pc = "done" /\ pad.err = ""
  /\ panicked = ""
  /\ Len(padLog) = 1
  /\ padLog' = Append(padLog, pad)
  /\ pad' = PadEnter(padLog[1].given, padLog[1].source, pad.target)
  /\ UNCHANGED <<calcAll, panicked, calls, pattern, active, sizes, sums, budget,
                 tower, expander>>

\* the sizes the callers pass to PadCommP
PadSizes == {0, 64, 96} \cup {Pow2(k) : k \in 7..(MaxLayers + 6)}

\* the commitments the callers pass to PadCommP: the one a Digest has just
\* returned, or, as their only call, the zero node or a slice of a wrong
\* length
PadSources ==
  IF last.op \in {"Digest", "Sum"} /\ last.ok
  THEN {NodeSlice(32, last.commP[1])}
  ELSE IF calls = 0
  THEN {NodeSlice(32, Leaf(Zeroes(32))), NodeSlice(31, Leaf(<<>>)),
        NodeSlice(33, Leaf(<<>>))}
  ELSE {}

-----------------------------------------------------------------------------
(* The expander on its own *)

\* a quad with only bit m (0-based, least significant bit of byte 0 first) set
OneBitQuad(m) ==
  [i \in 1..quadPayload |-> IF i - 1 = m \div 8 THEN Pow2(m % 8) ELSE 0]

\* the quads put through the expander: all zeroes, all ones, a ramp, and every
\* quad with a single bit set
QuadInputs ==
  {Zeroes(quadPayload), [i \in 1..quadPayload |-> 255],
   [i \in 1..quadPayload |-> (7 * i + 129) % 256]}
  \cup {OneBitQuad(m) : m \in 0..(8 * quadPayload - 1)}

\* digestQuads: the body of the loop over j, on one quad
ExpandOne(input) ==
  /\ expander.input = <<>>
  /\ expander' = [input |-> input, output |-> ExpandQuad(input)]
  /\ UNCHANGED <<calcAll, panicked, calls, pattern, active, sizes, sums, budget,
                 tower, padLog, pad>>

NextQuad == \E input \in QuadInputs : ExpandOne(input)

-----------------------------------------------------------------------------
(* The specifications *)

Next ==
  \/ \E t \in Threads : WriteEmpty(t)
  \/ \E t \in Threads, n \in sizes : WriteCall(t, n)
  \/ \E t \in Threads : WriteSplice(t)
  \/ \E t \in Threads : WriteLoop(t)
  \/ \E t \in Threads, sum \in sums : DigestCall(t, sum)
  \/ \E t \in Threads : DigestFlush(t)
  \/ \E t \in Threads : DigestClose(t)
  \/ \E t \in Threads : DigestReturn(t)
  \/ \E t \in Threads : ResetCall(t)
  \/ \E t \in Threads : ResetReturn(t)
  \/ \E k \in Layers : WorkerRecv(k)
  \/ \E k \in Layers : WorkerSend(k)
  \/ \E k \in Layers : WorkerClose(k)
  \/ \E k \in Layers : WorkerSendClose(k)

\* one caller thread
Spec == Init /\ [][Next]_vars

\* the Go scheduler: a goroutine that can take a step eventually takes one,
\* be it a layer goroutine or a caller inside a method of Calc
Fairness ==
  /\ \A k \in Layers :
       WF_vars(WorkerRecv(k) \/ WorkerSend(k) \/ WorkerClose(k)
                 \/ WorkerSendClose(k))
  /\ \A t \in Threads :
       WF_vars(WriteSplice(t) \/ WriteLoop(t) \/ DigestFlush(t)
                 \/ DigestClose(t) \/ DigestReturn(t) \/ ResetReturn(t))

\* one caller thread, under the scheduler's fairness
SpecLive == Init /\ [][Next]_vars /\ Fairness

\* two caller threads sharing the Calc
InitMT ==
  InitWith({1, 2}, {MinPiecePayload, bufferSize + 1}, MaxCalls, {"ramp"}, BOOLEAN)
SpecMT == InitMT /\ [][Next]_vars

\* one caller thread making more calls, with fewer lengths
InitLong == InitWith({1}, FewSizes, MaxCalls + 1, Patterns, BOOLEAN)
SpecLong == InitLong /\ [][Next]_vars

\* the methods of Calc and PadCommP
NextPad ==
  \/ Next
  \/ \E t \in Threads, c \in PadSources, s \in PadSizes, tg \in PadSizes :
       PadCall(t, c, s, tg)
  \/ PadLoop
  \/ PadReturn

\* one caller that ends with a call of PadCommP
InitPad ==
  InitWith({1}, {MinPiecePayload, bufferSize + 1}, MaxCalls + 1, {"ramp"},
           {FALSE})
SpecPad == InitPad /\ [][NextPad]_vars

\* the commitments a caller that only pads passes to PadCommP: the zero node,
\* a node of raw bytes, a digest
ComposeSources ==
  {NodeSlice(32, Leaf(Zeroes(32))),
   NodeSlice(32, Leaf([i \in 1..32 |-> (5 * i) % 64])),
   NodeSlice(32, stackedNulPadding(2))}

\* PadCommP called on its own result, and then directly
NextCompose ==
  \/ \E c \in ComposeSources, s \in PadSizes, tg \in PadSizes : PadCall(1, c, s, tg)
  \/ PadLoop
  \/ PadReturn
  \/ \E tg \in PadSizes : PadChain(tg)
  \/ PadDirect

SpecCompose == InitPad /\ [][NextCompose]_vars

\* the expander applied to one quad
SpecQuad == Init /\ [][NextQuad]_vars

\* one caller whose Writes include one that is over the limit by itself
InitOver ==
  InitWith({1}, {MinPiecePayload, bufferSize + 1, MaxPiecePayload + 1},
           MaxCalls, {"ramp"}, {FALSE})
SpecOver == InitOver /\ [][Next]_vars

-----------------------------------------------------------------------------
(* Properties *)

\* thread t is inside the body of a public method, holding the mutex
InBody(t) == th[t].st # "idle"

AllIdle == \A t \in Threads : ~InBody(t)

\* the last call to return was a Digest or a Sum
DigestReturned == last.op \in {"Digest", "Sum"}

\* the accumulator is the zero value of Calc
IsZeroState ==
  /\ quadsEnqueued = 0
  /\ layerQueues = ZeroQueues
  /\ resultCommP = NilChan
  /\ buffer = NilBuffer

\* leaves zero-extended to a power-of-two number of leaves
PadLeaves(leaves) ==
  leaves \o [i \in 1..(NextPow2(Len(leaves)) - Len(leaves)) |-> Leaf(Zeroes(32))]

\* C1: whenever Digest returns a commitment for a session, the commitment is
\* the root of the complete binary Merkle tree (parent = masked hash of left
\* and right) over the Fr32 leaves of the session's payload zero-extended to
\* the padded piece size; and no Digest of a payload of 65..MaxPiecePayload
\* bytes ends in a panic.
C1_DigestIsMerkleRoot ==
  /\ (DigestReturned /\ last.ok) => last.commP = <<RefCommP(last.payload)>>
  /\ \A t \in Threads :
       (th[t].st \in {"DigestFlush", "DigestWait"} /\ Len(payload) <= MaxPiecePayload)
         => panicked = ""

\* a Digest returned the root of a tree that needed nul padding above the
\* leaves, for a payload written in more than one Write
C1_Witness ==
  /\ DigestReturned /\ last.ok
  /\ calls >= 3
  /\ RefPaddedSize(Len(last.payload)) > CeilDiv(Len(last.payload), 127) * 128

\* C2: when Digest has closed layer 0, the leaves delivered to layer 0 are the
\* Fr32 leaves of the accepted bytes zero-extended to whole quads, whatever
\* the Writes that delivered the bytes were.
C2_CloseStep ==
  (\E t \in Threads : th[t].st = "DigestFlush" /\ th'[t].st = "DigestWait") =>
     leavesIn' = RefLeaves(payload', CeilDiv(Len(payload'), 127) * 128)

C2_ChunkIndependence == [][C2_CloseStep]_vars

\* Digest closed layer 0 after two Writes that together went through the
\* buffer splice
C2_Witness ==
  /\ th[1].st = "DigestWait"
  /\ calls = 3
  /\ last.op = "Write" /\ last.ok /\ last.n > 0
  /\ last.n < Len(payload)
  /\ Len(payload) > bufferSize

\* C3: Reset never makes a goroutine panic, and once it has returned the
\* accumulator is the zero value.
C3_ResetIsSafe ==
  /\ \A t \in Threads : th[t].st = "ResetWait" => panicked = ""
  /\ (last.op = "Reset" /\ AllIdle) => IsZeroState

\* C4: the payload the Writes of a session accepted never exceeds
\* MaxPiecePayload.
C4_PayloadWithinMax == Len(payload) <= MaxPiecePayload

\* C5: the padded piece size Digest returns is the smallest power of two that
\* is >= ceil(n/127)*128 for the n bytes accepted, and at least 128.
C5_PaddedSizeLaw ==
  (DigestReturned /\ last.ok) =>
    /\ last.size = RefPaddedSize(Len(last.payload))
    /\ last.size >= 128

\* Digest returned a size that had to be rounded up to a power of two
C5_Witness ==
  /\ DigestReturned /\ last.ok
  /\ last.size > CeilDiv(Len(last.payload), 127) * 128

\* C6: Digest fails exactly when fewer than 65 bytes were accepted in the
\* session: a failed Digest saw fewer than 65, a Digest that gets past the
\* test or returns a commitment saw 65 or more.
C6_Threshold ==
  /\ (DigestReturned /\ ~last.ok) => Len(last.payload) < MinPiecePayload
  /\ (DigestReturned /\ last.ok) => Len(last.payload) >= MinPiecePayload
  /\ \A t \in Threads :
       th[t].st \in {"DigestFlush", "DigestWait"} => Len(payload) >= MinPiecePayload

\* Digest failed on 64 accepted bytes
C6_Witness ==
  /\ last.op = "Digest" /\ ~last.ok
  /\ Len(last.payload) = MinPiecePayload - 1

\* C7: a Digest that fails leaves the accumulator, its channels and its
\* workers as they were; and a Digest that succeeds after failed ones returns
\* the commitment of all the bytes of the session.
C7_FailedDigestStep ==
  (/\ calls' = calls + 1
   /\ th' = th
   /\ last'.op \in {"Digest", "Sum"}
   /\ ~last'.ok)
  => UNCHANGED <<quadsEnqueued, layerQueues, resultCommP, buffer, workers, mu>>

C7_FailedDigestPreserves ==
  /\ [][C7_FailedDigestStep]_vars
  /\ []((DigestReturned /\ last.ok /\ last.failLen >= 0)
          => last.commP = <<RefCommP(last.payload)>>)

\* a Digest succeeded in a session in which an earlier Digest failed with
\* bytes already buffered
C7_Witness ==
  /\ DigestReturned /\ last.ok
  /\ last.failLen = MinPiecePayload - 1
  /\ Len(last.payload) = MinPiecePayload

\* C8: when a successful Digest has returned, the accumulator is the zero
\* value (so a following Digest fails), no worker is left running, and the
\* Digest of a later session returns the commitment of that session alone.
C8_DigestResets ==
  /\ (DigestReturned /\ last.ok /\ AllIdle) =>
       /\ IsZeroState
       /\ Insufficient
       /\ \A k \in Layers : workers[k].pc \in {"none", "done"}
  /\ (DigestReturned /\ last.ok /\ sessions >= 2) =>
       last.commP = <<RefCommP(last.payload)>>

\* the second session of a Calc ended with a successful Digest
C8_Witness ==
  /\ DigestReturned /\ last.ok /\ AllIdle
  /\ sessions = 2

C10_MutualExclusion ==
  /\ \A t1, t2 \in Threads : (InBody(t1) /\ InBody(t2)) => t1 = t2
  /\ \A t \in Threads : InBody(t) => mu = t
  /\ (mu = 0 /\ panicked = "") =>
       /\ leavesIn = ExpandSlab(Slice(payload, 0, quadsEnqueued * quadPayload))
       /\ buffer.b = Slice(payload, quadsEnqueued * quadPayload, Len(payload))

\* thread 1 is in the middle of a Write after thread 2 completed one
C10_Witness ==
  /\ th[1].st = "WriteLoop"
  /\ last.op = "Write" /\ last.t = 2 /\ last.ok /\ last.n > 0

\* a layer goroutine that was started and has not returned
Running(k) == workers[k].pc \notin {"none", "done"}

\* C11: when a successful Digest (or Sum) or a Reset has returned, no layer
\* goroutine started in the session it ended is still running.
C11_WorkersTerminate ==
  (AllIdle /\ ((DigestReturned /\ last.ok) \/ last.op = "Reset")) =>
     \A k \in Layers : ~Running(k)

\* a Reset has returned in a session in which the goroutines of layers 0, 1
\* and 2 had been started
C11_Witness ==
  /\ AllIdle /\ last.op = "Reset"
  /\ Len(last.payload) > bufferSize
  /\ \A k \in 0..2 : workers[k].pc = "done"

\* C12: the step of a Write rejected for overflow reports 0 bytes and changes
\* nothing of the accumulator, its channels, its workers or the accepted
\* payload; and a Digest that succeeds later in the session returns the
\* commitment and size of the accepted bytes.
C12_RejectedWriteStep ==
  (/\ calls' = calls + 1
   /\ th' = th
   /\ last'.op = "Write"
   /\ ~last'.ok)
  => /\ last'.n = 0
     /\ UNCHANGED <<quadsEnqueued, layerQueues, resultCommP, buffer, workers,
                    mu, payload, leavesIn>>

C12_OverflowIsAtomic ==
  /\ [][C12_RejectedWriteStep]_vars
  /\ []((DigestReturned /\ last.ok /\ last.rejLen >= 0)
          => /\ last.commP = <<RefCommP(last.payload)>>
             /\ last.size = RefPaddedSize(Len(last.payload)))

\* a Digest succeeded in a session whose first Write, on the zero state, had
\* been rejected
C12_Witness ==
  /\ DigestReturned /\ last.ok
  /\ last.rejLen = 0

\* PadCommP was called
PadCalled == pad.pc # "idle"

\* PadCommP has returned a digest
PadSucceeded == pad.pc = "done" /\ pad.err = ""

\* PadCommP was called on the commitment and size the last Digest returned
PadOfDigest ==
  /\ PadCalled
  /\ DigestReturned /\ last.ok
  /\ pad.source = last.size

\* C13: PadCommP of the commitment and the padded size s a Digest returned,
\* to a power of two t with s <= t <= MaxPieceSize, returns the commitment of
\* the payload zero-extended to t/128*127 bytes.
C13_ExtensionAgreement ==
  (PadOfDigest /\ PadSucceeded) =>
     pad.res = NodeSlice(32,
       RefCommP(last.payload \o
                Zeroes((pad.target \div 128) * 127 - Len(last.payload))))

\* a commitment of padded size 128 was extended by two levels
C13_Witness ==
  /\ PadOfDigest /\ PadSucceeded
  /\ pad.source = 128
  /\ pad.target = 512

\* a power of two: exactly one set bit
IsPow2(x) == x > 0 /\ NextPow2(x) = x

\* the arguments PadCommP accepts, as the specification lists them
PadValid(sourceCommP, source, target) ==
  /\ sourceCommP.len = 32
  /\ IsPow2(source) /\ IsPow2(target)
  /\ 128 <= source /\ source <= target /\ target <= MaxPieceSize

\* C14: PadCommP gets past its checks exactly when the commitment has 32
\* bytes, both sizes are powers of two and 128 <= source <= target <=
\* MaxPieceSize; otherwise it returns an error and no digest, and when it
\* succeeds it returns a digest of 32 bytes.
C14_PadCommPValidation ==
  PadCalled =>
    /\ (pad.err = "") <=> PadValid(pad.given, pad.source, pad.target)
    /\ pad.err # "" => (pad.pc = "done" /\ pad.res = NilSlice)
    /\ PadSucceeded => pad.res.len = 32

\* PadCommP rejected a target above MaxPieceSize whose other arguments were
\* valid
C14_Witness ==
  /\ pad.pc = "done"
  /\ pad.err = "target padded size larger than Filecoin maximum"
  /\ pad.given.len = 32 /\ pad.source = 128 /\ pad.target = 2 * MaxPieceSize

\* the error PadCommP returned is one of the two "not a power of 2" errors
NotPowerOfTwo ==
  pad.err \in {"source padded size is not a power of 2",
               "target padded size is not a power of 2"}

\* C15 as the specification states it: with a commitment of 32 bytes, the
\* "not a power of 2" error is returned exactly when a size has more than one
\* set bit.
C15_MoreThanOneBit ==
  (PadCalled /\ pad.given.len = 32) =>
    (NotPowerOfTwo <=>
       (OnesCount64(pad.source) > 1 \/ OnesCount64(pad.target) > 1))

\* C15: with a commitment of 32 bytes, the "not a power of 2" error is
\* returned exactly when the source size or the target size has a number of
\* set bits other than one, a size of 0 included; with a commitment of another
\* length the length error is returned instead.
C15_NotExactlyOneBit ==
  PadCalled =>
    /\ pad.given.len = 32 =>
         (NotPowerOfTwo <=>
            (OnesCount64(pad.source) # 1 \/ OnesCount64(pad.target) # 1))
    /\ pad.given.len # 32 => ~NotPowerOfTwo

\* PadCommP returned the "not a power of 2" error for a source size of 0
C15_Witness ==
  /\ pad.pc = "done"
  /\ pad.source = 0 /\ pad.target = 128
  /\ pad.err = "source padded size is not a power of 2"

\* log2 of a power of two
Log2(x) == TrailingZeros64(x)

\* the fold of the specification: C_{k+1} = mask(hash(C_k || P[k-5])) for k
\* from `from` to `to` - 1, P the nul padding tower
RECURSIVE RefPadFold(_, _, _)
RefPadFold(c, from, to) ==
  IF from >= to THEN c
  ELSE RefPadFold(ClearTop(Sha256(c, stackedNulPadding(from - 5))), from + 1, to)

\* C16: when PadCommP succeeds its result is the fold of the commitment with
\* the padding tower from level log2(source) to level log2(target) - 1, the
\* commitment itself when source = target; and every index s - 5 at which the
\* loop reads the tower is within 0..MaxLayers-1.
C16_PadCommPFold ==
  /\ PadSucceeded =>
       /\ pad.res = NodeSlice(32, RefPadFold(pad.given.node, Log2(pad.source),
                                            Log2(pad.target)))
       /\ pad.source = pad.target => pad.res = pad.given
  /\ (pad.pc = "loop" /\ pad.s < pad.t) =>
       /\ PadIndex(pad.s) \in 0..(MaxLayers - 1)
       /\ PadIndex(pad.s) \in DOMAIN tower
  /\ panicked # "index out of range" \/ ~PadCalled

\* PadCommP folded the zero node from 128 bytes up to MaxPieceSize, reading
\* the topmost entry of the tower
C16_Witness ==
  /\ PadSucceeded
  /\ pad.given = NodeSlice(32, Leaf(Zeroes(32)))
  /\ pad.source = 128 /\ pad.target = MaxPieceSize
  /\ pad.s = MaxLayers + 5

\* C17: a call of PadCommP never changes the bytes of the caller's
\* sourceCommP nor the nul padding table, and its steps change nothing of the
\* accumulator.
C17_PadStep ==
  pad' # pad => UNCHANGED <<calcAll, tower>>

C17_PadCommPIsPure ==
  /\ [][C17_PadStep]_vars
  /\ [](PadCalled => pad.sourceCommP = pad.given)
  /\ [](tower = NulTable)

\* PadCommP returned a digest other than the commitment it was given
C17_Witness ==
  /\ PadSucceeded
  /\ pad.res # pad.given

\* the last call to return was a Sum
SumReturned == last.op = "Sum"

\* C18: a Sum that returns gives buf followed by the one 32-byte commitment
\* of the session's payload, and has reset the accumulator; a Sum on fewer
\* than 65 accepted bytes ends in panic(err), returns nothing and changes
\* nothing of the accumulator.
C18_SumFailStep ==
  (/\ calls' = calls + 1
   /\ th' = th
   /\ last'.op = "Sum"
   /\ ~last'.ok)
  => /\ last'.raised
     /\ last'.out = <<>>
     /\ Len(payload) < MinPiecePayload
     /\ UNCHANGED <<quadsEnqueued, layerQueues, resultCommP, buffer, workers,
                    mu, payload>>

C18_SumAppendsDigest ==
  /\ [][C18_SumFailStep]_vars
  /\ []((SumReturned /\ last.ok) =>
          /\ last.out = SumPrefix \o <<RefCommP(last.payload)>>
          /\ Len(last.out) = Len(SumPrefix) + 1
          /\ ~last.raised
          /\ Len(last.payload) >= MinPiecePayload
          /\ AllIdle => IsZeroState)
  /\ []((SumReturned /\ ~last.ok) => last.raised)

\* a Sum returned in a session in which an earlier Sum had ended in a panic
C18_Witness ==
  /\ SumReturned /\ last.ok /\ AllIdle
  /\ last.failLen >= 0
  /\ Len(last.out) = 2

\* every node of a sequence of nodes has the two top bits of byte 31 clear
AllClear(nodes) == \A i \in 1..Len(nodes) : TopBits(nodes[i]) = 0

\* C19: every node of every slab on a layer queue, every node a layer
\* goroutine holds or is about to send, the node on the result channel and
\* every commitment Digest returned have the two most significant bits of
\* byte 31 equal to zero.
C19_TopBitsClear ==
  /\ \A k \in QueueIdx :
       \A i \in 1..Len(layerQueues[k].q) : AllClear(layerQueues[k].q[i])
  /\ \A k \in Layers : AllClear(workers[k].twinHold) /\ AllClear(workers[k].out)
  /\ AllClear(resultCommP.q)
  /\ AllClear(last.commP)

\* a result is published for a payload whose byte 31 has one of its two top
\* bits set, after a parent formed with nul padding travelled to layer 2
C19_Witness ==
  /\ Len(resultCommP.q) > 0
  /\ Len(payload) >= 32 /\ payload[32] >= 64
  /\ Len(leavesIn) = 12
  /\ workers[2].pc = "done"

\* bit m (0-based, least significant bit of byte 0 first) of a byte sequence
StreamBit(bytes, m) == Bit(bytes[(m \div 8) + 1], m % 8)

\* C20: the 128 bytes the expander makes of a quad are, as a bitstream, the
\* bitstream of the quad with two zero bits inserted after every 254 bits
\* (at output bits 254, 510, 766 and 1022), and every input bit is at its
\* place in the output.
C20_ExpanderIsBitInsertion ==
  expander.input # <<>> =>
    /\ Len(expander.output) = 128
    /\ \A q \in 0..1023 :
         StreamBit(expander.output, q) =
           IF q % 256 >= 254 THEN 0
           ELSE StreamBit(expander.input, 254 * (q \div 256) + (q % 256))
    /\ \A m \in 0..(8 * quadPayload - 1) :
         StreamBit(expander.input, m) =
           StreamBit(expander.output, m + 2 * (m \div 254))

\* the expander was applied to the quad whose only set bit is bit 1015, the
\* last one, which ends up at output bit 1021
C20_Witness ==
  /\ expander.input = OneBitQuad(8 * quadPayload - 1)
  /\ expander.output[128] = 32

\* C21: the step of a Write of zero bytes returns (0, nil) and changes nothing
\* of the accumulator, its channels, its workers, the mutex or the accepted
\* payload, whatever the state and whoever holds the mutex; it raises no
\* panic.
C21_EmptyWriteStep ==
  (/\ calls' = calls + 1
   /\ th' = th
   /\ last'.op = "Write"
   /\ last'.ok
   /\ last'.n = 0)
  => /\ UNCHANGED <<quadsEnqueued, layerQueues, resultCommP, buffer, workers,
                    mu, payload, leavesIn, sessions, panicked>>
     /\ last'.commP = <<>>

C21_EmptyWriteIsNoop ==
  /\ [][C21_EmptyWriteStep]_vars
  /\ []((last.op = "Write" /\ last.ok /\ last.n = 0 /\ calls = 1) => IsZeroState)

\* a Write of zero bytes returned on an accumulator that was never used,
\* which still is the zero value
C21_Witness ==
  /\ last.op = "Write" /\ last.ok /\ last.n = 0
  /\ calls = 1 /\ sessions = 0
  /\ IsZeroState
  /\ \A k \in Layers : workers[k].pc = "none"

\* the root of the complete tree over 2^i leaves of 32 zero bytes
ZeroRoot(i) == MerkleRoot([j \in 1..Pow2(i) |-> Leaf(Zeroes(32))])

\* C22: the nul padding table has the entries 0..MaxLayers-1; entry 0 is 32
\* zero bytes, entry i is the masked hash of entry i-1 written twice, which is
\* the root of the all-zero tree of 2^i leaves; and no step of Write, Digest,
\* Reset, a layer goroutine or PadCommP changes the table.
C22_NulTableIsFixed ==
  /\ [](DOMAIN tower = 0..(MaxLayers - 1))
  /\ [](tower[0] = Leaf(Zeroes(32)))
  /\ [](\A i \in 1..(MaxLayers - 1) :
          /\ tower[i] = ClearTop(Sha256(tower[i - 1], tower[i - 1]))
          /\ tower[i] = ZeroRoot(i))
  /\ [][tower' = tower]_vars

\* a layer goroutine has paired a held node with entry 1 of the table, and
\* PadCommP has folded a commitment with the topmost entry
C22_Witness ==
  /\ PadSucceeded
  /\ pad.target = MaxPieceSize
  /\ pad.res # pad.given
  /\ workers[1].pc = "done"
  /\ Len(last.payload) = bufferSize + 1

\* C23: no goroutine indexes layerQueues or the nul padding table out of
\* range, and the goroutine of layer MaxLayers, the topmost, never has a
\* parent to push to a layer above it, whatever the Writes accepted.
C23_IndexesInRange ==
  /\ panicked # "index out of range"
  /\ workers[MaxLayers].pc \notin {"send", "sendclose"}

\* addLayer(k) was called in this session: the queue above layer k exists
Started(k) == ~layerQueues[k + 1].nil

\* the layer whose goroutine finds itself last when its queue is closed: the
\* highest layer started
Highest(k) == Started(k) /\ IsLast(k)

\* C24: once layer 0 is closed, the highest layer started is the only one
\* to publish on the result channel, it publishes once, and when it finds
\* its queue closed it holds a node (never none), which it publishes.
C24_HighestPublishesOnce ==
  /\ \A k \in Layers :
       (Highest(k) /\ workers[k].pc = "recv" /\ QueueClosed(k))
         => Len(workers[k].twinHold) = 1
  /\ panicked # "slice bounds out of range [:32] with capacity 0"
  /\ ~resultCommP.nil =>
       /\ Len(resultCommP.q) <= 1
       /\ Len(resultCommP.q) = 1 =>
            \E k \in Layers : Highest(k) /\ workers[k].pc = "done"

\* C25: a goroutine that finds its queue closed, is not the highest layer and
\* holds a node hashes the node with entry myIdx of the nul padding table,
\* the root of the all-zero tree of the height of the node, sends the masked
\* parent to the next layer, which was still open, and closes that layer with
\* the send; one that holds no node closes the next layer and sends nothing.
C25_CloseStep ==
  \A k \in 0..(MaxLayers - 1) :
    /\ (workers[k].pc = "recv" /\ workers'[k].pc = "sendclose") =>
         /\ ~IsLast(k) /\ QueueClosed(k)
         /\ workers'[k].out[1] =
              ClearTop(Sha256(workers[k].twinHold[1], ZeroRoot(k)))
         /\ layerQueues' = layerQueues
    /\ (workers[k].pc = "sendclose" /\ workers'[k].pc = "done") =>
         /\ ~layerQueues[k + 1].closed
         /\ layerQueues'[k + 1].q = Append(layerQueues[k + 1].q, workers[k].out)
         /\ layerQueues'[k + 1].closed
    /\ (workers[k].pc = "recv" /\ workers'[k].pc = "done" /\ ~IsLast(k)) =>
         /\ workers[k].twinHold = <<>>
         /\ ~layerQueues[k + 1].closed
         /\ layerQueues' = [layerQueues EXCEPT ![k + 1].closed = TRUE]

C25_PaddingOnClose ==
  /\ [][C25_CloseStep]_vars
  /\ [](workers[MaxLayers].pc # "sendclose")

\* layers 0 and 1 closed the next layer without a send, layer 2 sent its held
\* node paired with entry 2 of the table and closed layer 3
C25_Witness ==
  /\ workers[0].pc = "done" /\ workers[1].pc = "done" /\ workers[2].pc = "done"
  /\ layerQueues[3].closed
  /\ Len(layerQueues[3].q) = 1
  /\ Len(layerQueues[3].q[1]) = 2
  /\ layerQueues[3].q[1][2] = tower[2]
  /\ layerQueues[3].q[1][1].k = "hash"
  /\ layerQueues[3].q[1][1].r = tower[2]

\* the nodes of layer k a slab carries: one every 2^k cells of a slab longer
\* than a node of that layer, else the first cell
Live(k, slab) ==
  IF Len(slab) > Pow2(k)
  THEN [i \in 1..(Len(slab) \div Pow2(k)) |-> slab[(i - 1) * Pow2(k) + 1]]
  ELSE <<slab[1]>>

RECURSIVE LiveAll(_, _)
LiveAll(k, slabs) ==
  IF slabs = <<>> THEN <<>> ELSE Live(k, Head(slabs)) \o LiveAll(k, Tail(slabs))

\* the two nodes every parent of a sequence was hashed from, in order
Children(parents) ==
  [i \in 1..(2 * Len(parents)) |->
     IF i % 2 = 1 THEN parents[(i + 1) \div 2].l ELSE parents[i \div 2].r]

\* the parents the goroutine of layer k has computed and not yet sent
Pending(k) ==
  IF workers[k].pc \in {"send", "sendclose"} THEN Live(k + 1, workers[k].out)
  ELSE <<>>

\* the node the goroutine of layer k holds, or has published as the last layer
Held(k) ==
  IF workers[k].pc = "sendclose" THEN <<>>
  ELSE IF workers[k].pc = "done" /\ Highest(k) /\ ~resultCommP.nil
  THEN resultCommP.q
  ELSE workers[k].twinHold

\* the nodes sent to layer k so far, in the order of the sends: those layer k
\* received (the children of the parents it made, then the node it holds),
\* then those waiting in its queue; when a layer has paired its last node
\* with the nul padding on close, the padding and its all-zero subtree come
\* after that node
RECURSIVE SentTo(_)
SentTo(k) ==
  IF k > MaxLayers THEN LiveAll(k, layerQueues[k].q)
  ELSE Children(SentTo(k + 1) \o Pending(k)) \o Held(k)
         \o LiveAll(k, layerQueues[k].q)

\* the nodes of layer k of the tree over the leaves sent so far,
\* zero-extended to a power of two: the masked hashes of the pairs of layer
\* k - 1 (the root of an all-zero subtree is the nul padding of its layer)
RECURSIVE LayerNodes(_)
LayerNodes(k) ==
  IF k = 0 THEN PadLeaves(leavesIn)
  ELSE LET below == LayerNodes(k - 1)
       IN  [i \in 1..(Len(below) \div 2) |->
              ClearTop(Sha256(below[2 * i - 1], below[2 * i]))]

IsPrefix(s, t) == Len(s) <= Len(t) /\ s = SubSeq(t, 1, Len(s))

C27_CallsReturn ==
  \A t \in Threads : InBody(t) ~> ~InBody(t)

\* no goroutine of layer k is running
Stopped(k) == workers[k].pc \in {"none", "done"}

\* C28: a goroutine is started for layer 0 by the step of the first accepted
\* non-empty Write of a session, for layer k + 1 by the step in which layer k
\* sends its first parent, and by no other step; when it is started no
\* goroutine of that layer is running and the queue above it is created; the
\* panic of addLayer for a second start never happens.
C28_StartStep ==
  /\ \A k \in Layers :
       (Stopped(k) /\ workers'[k].pc \notin {"none", "done"}) =>
         /\ workers'[k] = [pc |-> "recv", twinHold |-> <<>>, out |-> <<>>]
         /\ layerQueues[k + 1].nil /\ ~layerQueues'[k + 1].nil
         /\ SentTo(k) = <<>>
         /\ IF k = 0
            THEN /\ buffer.nil /\ ~buffer'.nil
                 /\ payload = <<>> /\ payload' # <<>>
            ELSE /\ workers[k - 1].pc = "send" /\ workers'[k - 1].pc = "recv"
                 /\ layerQueues'[k].q = <<workers[k - 1].out>>
  /\ (buffer.nil /\ ~buffer'.nil) => (Stopped(0) /\ workers'[0].pc = "recv")
  /\ \A k \in 0..(MaxLayers - 1) :
       (workers[k].pc = "send" /\ workers'[k].pc = "recv" /\ SentTo(k + 1) = <<>>)
         => (Stopped(k + 1) /\ workers'[k + 1].pc = "recv")

C28_LazyLayers ==
  /\ [][C28_StartStep]_vars
  /\ [](panicked # "addLayer called more than once with identical idx argument")

\* in the second session of a Calc the goroutines of layers 0 and 1 have been
\* started again, after those of the first session, up to layer 3, returned
C28_Witness ==
  /\ sessions = 1
  /\ ~buffer.nil
  /\ workers[0].pc # "none"
  /\ workers[1].pc = "recv"
  /\ workers[3].pc = "done"

\* a Write has returned and no call is in progress
WriteReturned == AllIdle /\ last.op = "Write" /\ last.ok /\ panicked = ""

Published == ~resultCommP.nil /\ Len(resultCommP.q) > 0

\* C30: whenever a node is on the result channel, layer 0 and every layer
\* started have been closed, every queue is empty, and no goroutine is running
\* or holds a node: everything sent before the close was consumed; a Digest
\* that returns an error returns no commitment and no size, one that returns
\* a commitment returns exactly one.
C30_NoPartialCommitment ==
  /\ Published =>
       /\ layerQueues[0].closed
       /\ \A k \in QueueIdx : Len(layerQueues[k].q) = 0
       /\ \A k \in Layers : ~layerQueues[k + 1].nil => layerQueues[k].closed
       /\ \A k \in Layers :
            ~Running(k) /\ workers[k].twinHold = <<>> /\ workers[k].out = <<>>
       /\ Len(resultCommP.q) = 1
       /\ resultCommP.q[1] = LayerNodes(Log2(Len(PadLeaves(leavesIn))))[1]
  /\ (DigestReturned /\ ~last.ok) => (last.commP = <<>> /\ last.size = 0)
  /\ (DigestReturned /\ last.ok) => Len(last.commP) = 1

\* a Digest waits for the result, which was published after the goroutines of
\* layers 0 to 3 consumed the nodes of three quads and returned
C30_Witness ==
  /\ Published
  /\ th[1].st = "DigestWait"
  /\ quadsEnqueued = 3
  /\ \A k \in 0..4 : workers[k].pc = "done"

\* a session is open: a non-empty Write was accepted, and neither a Digest
\* nor a Reset has closed layer 0 since
SessionOpen == ~buffer.nil /\ ~layerQueues[0].closed

\* C31: while a session is open, every goroutine started in it is at its
\* receive or about to send a parent, none has returned and none has
\* panicked; the goroutine of layer 0 is among them.
C31_WorkersStayAlive ==
  SessionOpen =>
    /\ panicked = ""
    /\ Started(0)
    /\ \A k \in Layers : Started(k) => workers[k].pc \in {"recv", "send"}

\* the callers have made their last call and left a session open without a
\* Reset: the goroutines of layers 0 to 3 wait at their empty queues
C31_Witness ==
  /\ SessionOpen
  /\ calls = budget /\ AllIdle
  /\ \A k \in 0..3 : workers[k].pc = "recv" /\ Len(layerQueues[k].q) = 0
  /\ workers[3].twinHold # <<>>

\* an open channel: made, and not closed
Open(ch) == ~ch.nil /\ ~ch.closed

\* C32: no send on a closed layer queue and no close of a nil or closed
\* channel ever happens: whoever is about to send on a queue or to close it
\* finds it open; whoever receives from a channel finds it made; and the
\* goroutine about to publish finds the result channel made and empty, so
\* that its send does not block.
C32_ChannelSafety ==
  /\ panicked \notin {"send on closed channel", "close of nil or closed channel"}
  /\ \A t \in Threads :
       /\ th[t].st \in {"WriteSplice", "WriteLoop", "DigestFlush"}
            => Open(layerQueues[0])
       /\ th[t].st \in {"DigestWait", "ResetWait"}
            => (~resultCommP.nil /\ layerQueues[0].closed)
  /\ \A k \in Layers :
       /\ Running(k) => ~layerQueues[k].nil
       /\ workers[k].pc \in {"send", "sendclose"} => Open(layerQueues[k + 1])
       /\ (workers[k].pc = "recv" /\ QueueClosed(k) /\ ~IsLast(k))
            => Open(layerQueues[k + 1])
       /\ (workers[k].pc = "recv" /\ QueueClosed(k) /\ IsLast(k))
            => (~resultCommP.nil /\ Len(resultCommP.q) = 0)

\* with two callers, a Reset of thread 2 closed layer 0 after a Write of
\* thread 1, every layer was closed once from below, and the result was sent
\* on the result channel
C32_Witness ==
  /\ th[2].st = "ResetWait"
  /\ last.op = "Write" /\ last.t = 1 /\ last.ok
  /\ Published
  /\ \A k \in 0..3 : layerQueues[k].closed

\* no public call is in progress and the process has not panicked
BetweenCalls == AllIdle /\ mu = 0 /\ panicked = ""

\* C33: between public calls, quadsEnqueued*127 + len(buffer) is the number of
\* bytes the Writes of the session accepted, the buffer is shorter than
\* bufferSize, and the buffer is nil exactly when no layer goroutine exists
\* (none was started, or all have returned).
C33_Accounting ==
  BetweenCalls =>
    /\ quadsEnqueued * quadPayload + Len(buffer.b) = Len(payload)
    /\ Processed = Len(payload)
    /\ Len(buffer.b) < bufferSize
    /\ buffer.nil <=> (\A k \in Layers : ~Running(k))
    /\ buffer.nil => (quadsEnqueued = 0 /\ buffer.b = <<>>)

\* between two calls the accumulator counts four quads enqueued and one byte
\* buffered, after a Write of one byte and a Write of MaxPiecePayload bytes
C33_Witness ==
  /\ BetweenCalls
  /\ calls = 2
  /\ quadsEnqueued * quadPayload = MaxPiecePayload
  /\ Len(buffer.b) = 1
  /\ Running(0)

\* C34: the padded piece size a successful Digest (or Sum) returns is a power
\* of two, at least 128 and at most MaxPieceSize, whatever Writes were
\* accepted before it.
C34_SizeIsBoundedPow2 ==
  (DigestReturned /\ last.ok) =>
    /\ IsPow2(last.size)
    /\ OnesCount64(last.size) = 1
    /\ 128 <= last.size
    /\ last.size <= MaxPieceSize

\* a Digest returned MaxPieceSize for a payload of MaxPiecePayload bytes
C34_Witness ==
  /\ DigestReturned /\ last.ok
  /\ Len(last.payload) = MaxPiecePayload
  /\ last.size = MaxPieceSize

\* C35: when PadCommP is called on a commitment C from size s to size m, then
\* on its result from m to size t, and both calls succeed, a call of PadCommP
\* on C from s to t succeeds and returns the same 32 bytes as the second
\* call.
C35_PadCommPComposes ==
  (Len(padLog) = 2 /\ pad.pc = "done") =>
    /\ pad.given = padLog[1].given
    /\ pad.source = padLog[1].source /\ pad.target = padLog[2].target
    /\ padLog[2].given = padLog[1].res /\ padLog[2].source = padLog[1].target
    /\ pad.err = ""
    /\ pad.res = padLog[2].res

\* a commitment was padded from 128 to 256 bytes, the result from 256 bytes to
\* MaxPieceSize, and the commitment from 128 bytes to MaxPieceSize
C35_Witness ==
  /\ Len(padLog) = 2 /\ pad.pc = "done" /\ pad.err = ""
  /\ pad.source = 128
  /\ padLog[1].target = 256
  /\ pad.target = MaxPieceSize
  /\ pad.given.node.k = "leaf" /\ pad.given.node.b[1] = 5
  /\ pad.res # padLog[1].res

\* the slabs that thread t passes to digestQuads in its next step: none or one
DigestQuadsArgs(t) ==
  IF th[t].st = "WriteSplice" /\ bufferSize - Len(buffer.b) < bufferSize
  THEN {SpliceSlab(buffer.b, th[t].in, bufferSize - Len(buffer.b))}
  ELSE IF th[t].st = "WriteLoop" /\ Len(th[t].in) >= bufferSize
  THEN {LoopSlab(th[t].in)}
  ELSE IF th[t].st = "DigestFlush" /\ Len(buffer.b) > 0
  THEN {FlushSlab(buffer.b)}
  ELSE {}

\* a slab of a positive power-of-two number of whole 127-byte quads
WholeQuads(inSlab) ==
  /\ Len(inSlab) % quadPayload = 0
  /\ IsPow2(Len(inSlab) \div quadPayload)

\* the goroutine of layer k is about to receive a slab from its open queue
Arriving(k) ==
  /\ workers[k].pc = "recv"
  /\ ~layerQueues[k].nil
  /\ Len(layerQueues[k].q) > 0

\* every slab passed to digestQuads is a power-of-two number of whole quads
C36_QuadSlabs ==
  \A t \in Threads : \A inSlab \in DigestQuadsArgs(t) : WholeQuads(inSlab)

\* every step that enqueues quads is a call of digestQuads on such a slab
C36_EnqueueStep ==
  quadsEnqueued' > quadsEnqueued =>
    \E t \in Threads : \E inSlab \in DigestQuadsArgs(t) :
      /\ WholeQuads(inSlab)
      /\ quadsEnqueued' = quadsEnqueued + Len(inSlab) \div quadPayload
      /\ layerQueues'[0].q = Append(layerQueues[0].q, ExpandSlab(inSlab))

\* no slab of more than one node arrives at a layer that holds a node
C36_NoOvertaking ==
  \A k \in Layers :
    (Arriving(k) /\ workers[k].twinHold # <<>>) =>
      ~IsMultiSlab(k, Head(layerQueues[k].q))

\* C36: digestQuads is only called with a positive power-of-two number of
\* whole 127-byte quads, and no layer receives a slab of more than one node
\* while it holds an unpaired node.
C36_SlabDiscipline ==
  /\ [](C36_QuadSlabs /\ C36_NoOvertaking)
  /\ [][C36_EnqueueStep]_vars

\* a layer that holds the node of a whole slab of Write receives the single
\* node that came up from a quad of Digest's flush
C36_Witness ==
  \E k \in Layers :
    /\ k > 0
    /\ Arriving(k)
    /\ workers[k].twinHold # <<>>
    /\ Len(Head(layerQueues[k].q)) < Len(leavesIn)
    /\ Len(leavesIn) = 4 * quadsEnqueued
    /\ quadsEnqueued = Pow2(BufLog) + 1
    /\ \E t \in Threads : th[t].st \in {"DigestFlush", "DigestWait"}

====
